---- MODULE Spec2Model ----
(***************************************************************************)
(* Model of the two Lambda handlers of AWS-SFTP-M345toM445:                *)
(*   lambda/start_sftp.py  (bring-up: create server, wait ONLINE, resolve  *)
(*                          hostname, upsert DNS alias, create users)      *)
(*   lambda/stop_sftp.py   (tear-down: locate server, delete users, stop,  *)
(*                          delete, verify)                                *)
(* Spec: one invocation of one handler per behaviour.  The provider (AWS   *)
(* Transfer), the DNS zone (Route 53) and the clock are the environment:   *)
(* every call outcome is chosen nondeterministically.                      *)
(* SpecInvocations: a sequence of completed invocations against one        *)
(* provider account in which every call succeeds.                          *)
(***************************************************************************)
EXTENDS Integers, Sequences, FiniteSets, TLC

(***************************************************************************)
(* Bounds of the model.                                                    *)
(***************************************************************************)
\* longest SFTP_USER_CONFIGS array / longest list_users answer
MaxUsers == 2
\* longest list_servers answer
MaxServers == 2
\* extra seconds one poll iteration may take beyond its sleep (0 or MaxLag)
MaxLag == 50
\* SpecInvocations: longest sequence of invocations
MaxInvocations == 5

(***************************************************************************)
(* Program constants.                                                      *)
(***************************************************************************)
max_wait_time == 300
poll_sleep == 10
max_hostname_attempts == 5

(***************************************************************************)
(* Python values.  None and str are kept apart: the handler compares a     *)
(* hostname with the string "None" while the resolver returns the object   *)
(* None.                                                                   *)
(* A str is a sequence of text chunks; "." inside a DNS name is a chunk   *)
(* of its own, so that rstrip('.') can be computed.                        *)
(***************************************************************************)
PyNone == [t |-> "NoneType", v |-> <<>>]
Str(s) == [t |-> "str", v |-> s]
\* a key that is not in a dict / an environment variable that is not set
Absent == [t |-> "absent", v |-> <<>>]
\* Python truthiness of a str-or-None value
Truthy(x) == x.t = "str" /\ x.v # <<>>
\* f"{x}": None is formatted as the text None
Format(x) == IF x.t = "str" THEN x.v ELSE <<"None">>
\* dict.get(key): None when the key is absent
DictGet(x) == IF x = Absent THEN PyNone ELSE x
\* os.environ.get(key, default): x is Absent when the variable is not set
EnvGet(x, default) == IF x = Absent THEN Str(default) ELSE x
\* str.rstrip('.')
RECURSIVE RStripDot(_)
RStripDot(s) ==
    IF s # <<>> /\ s[Len(s)] = "."
    THEN RStripDot(SubSeq(s, 1, Len(s) - 1))
    ELSE s

(***************************************************************************)
(* Exceptions.  ClientError is a subclass of Exception; KeyError,          *)
(* TypeError, AttributeError, WaiterError and botocore's connection errors *)
(* are Exceptions that are not ClientErrors.                               *)
(***************************************************************************)
\* msg: the part of str(e) that the raising code formats a value into
NoExc == [t |-> "none", code |-> "", msg |-> ""]
ClientError(code) == [t |-> "ClientError", code |-> code, msg |-> ""]
OtherExc(name) == [t |-> name, code |-> "", msg |-> ""]
\* an exception whose message does not name the state
FailedStateExc_Anonymous(state) == [t |-> "Exception", code |-> "", msg |-> ""]
\* start_sftp.py line 332: raise Exception(f"Server entered failed state: {state}")
FailedStateExc(state) == [t |-> "Exception", code |-> "", msg |-> state]
IsClientError(e) == e.t = "ClientError"
IsException(e) == e.t # "none"
\* what one provider / DNS call can raise
CallErrors == {ClientError("AccessDeniedException"), OtherExc("Exception")}
DescribeErrors == CallErrors \cup {ClientError("ResourceNotFoundException")}

(***************************************************************************)
(* Inputs: the environment variables of one invocation.                    *)
(***************************************************************************)
\* all sequences over S of length 0..n
SeqsUpTo(S, n) == UNION {[1..k -> S] : k \in 0..n}

\* One element of the SFTP_USER_CONFIGS document: a JSON object with some of
\* the keys of a user record, or a JSON string.
JsonElements ==
    {[json |-> "object", keys |-> ks] :
        ks \in {{"username", "home_dir", "public_key"}, {"home_dir"}}}
    \cup {[json |-> "string", keys |-> {}]}
JsonStrings == {e \in JsonElements : e.json = "string"}
\* The text of SFTP_USER_CONFIGS: not JSON at all, or a JSON number, a JSON
\* object (items: its member names) or a JSON array (items: its elements).
ConfigTexts ==
    {[json |-> "invalid", items |-> <<>>], [json |-> "number", items |-> <<>>]}
    \cup {[json |-> "object", items |-> it] : it \in SeqsUpTo(JsonStrings, 1)}
    \cup {[json |-> "array", items |-> it] : it \in SeqsUpTo(JsonElements, MaxUsers)}

ExampleCom == <<"example", ".", "com">>
\* not set up, relative, and fully qualified (with the root dot)
DomainNames == {<<>>, ExampleCom, ExampleCom \o <<".">>}
\* what boto3.Session().region_name may answer
Regions == {PyNone, Str(<<"us-west-2">>)}

StartEnvirons ==
    [required : BOOLEAN,
     SFTP_USER_CONFIGS : {Absent} \cup {Str(t) : t \in ConfigTexts},
     DOMAIN_NAME : {Str(d) : d \in DomainNames},
     SFTP_SUBDOMAIN : {Absent, Str(<<>>)},
     HOSTED_ZONE_ID : {Str(<<>>), Str(<<"Z1">>)}]
\* the tear-down handler reads SERVER_NAME only
StopEnvirons ==
    [required : BOOLEAN,
     SFTP_USER_CONFIGS : {Absent},
     DOMAIN_NAME : {Str(<<>>)},
     SFTP_SUBDOMAIN : {Absent},
     HOSTED_ZONE_ID : {Str(<<>>)}]

\* the value of SERVER_NAME
ServerName == <<"sftp-server">>

(***************************************************************************)
(* json.loads and the Python objects it builds.                            *)
(***************************************************************************)
PyElement(e) ==
    IF e.json = "object" THEN [type |-> "dict", keys |-> e.keys]
    ELSE [type |-> "str", keys |-> {}]
NoObject == [type |-> "NoneType", items |-> <<>>]
\* json.loads(text): [exc, value]
json_loads(text) ==
    IF text.json = "invalid"
    THEN [exc |-> OtherExc("JSONDecodeError"), value |-> NoObject]
    ELSE [exc |-> NoExc,
          value |-> [type |-> CASE text.json = "number" -> "int"
                               [] text.json = "object" -> "dict"
                               [] OTHER -> "list",
                     items |-> [i \in 1..Len(text.items) |-> PyElement(text.items[i])]]]
\* len(x) raises TypeError unless x is sized
HasLen(x) == x.type \in {"list", "dict", "str"}

(***************************************************************************)
(* start_sftp.py: get_server_hostname                                      *)
(***************************************************************************)
\* the id create_server answers with
NewServerId == <<"s-1">>
EndpointHost == <<"s-1.endpoint.example.net">>
ConstructHostname(id, region) ==
    id \o <<".server.transfer.">> \o region \o <<".amazonaws.com">>
\* An Arn is kept as the list Arn.split(':') yields; <<>> stands for a
\* description without the key Arn.
FullArn == <<"arn", "aws", "transfer", "eu-west-1", "123456789012", "server/s-1">>
ShortArn == <<"arn", "aws", "transfer">>
\* the answers of describe_server the resolver may be given
ServerInfos ==
    [Endpoint : {Absent, Str(<<"None">>), Str(EndpointHost)},
     ServerId : {Absent, Str(NewServerId)},
     Arn : {<<>>, ShortArn, FullArn}]

ArnRegion(server) ==
    IF server.Arn # <<>> /\ Len(server.Arn) >= 4
    THEN Str(<<server.Arn[4]>>)
    ELSE PyNone

get_server_hostname(server, session_region) ==
    LET endpoint == DictGet(server.Endpoint)
        server_id == DictGet(server.ServerId)
        arn_region == ArnRegion(server)
        region == IF Truthy(arn_region) THEN arn_region
                  ELSE IF Truthy(session_region) THEN session_region
                  ELSE Str(<<"us-east-1">>)
    IN  IF Truthy(endpoint) THEN endpoint
        ELSE IF Truthy(server_id)
        THEN Str(ConstructHostname(server_id.v, region.v))
        ELSE PyNone

\* start_sftp.py line 71: the resolved value ends the retry loop
HostnameUsable(h) == Truthy(h) /\ h # Str(<<"None">>)
\* start_sftp.py lines 79-84: the fallback after the retry loop
HostnameFallback(h, server_id, session_region) ==
    IF h = Str(<<"None">>)
    THEN Str(ConstructHostname(server_id.v, Format(session_region)))
    ELSE h

(***************************************************************************)
(* start_sftp.py: verify_dns_update                                        *)
(***************************************************************************)
\* list_resource_record_sets(MaxItems='1') answers with at most one record set
RecordSets(record_name, expected) ==
    [Name : {record_name, record_name \o <<".">>, RStripDot(record_name),
             <<"other">> \o record_name},
     Type : {"CNAME", "A"},
     Value : {expected, Str(<<"stale.example.net">>)}]
NoListAnswer == [exc |-> NoExc, sets |-> <<>>]
ListAnswers(record_name, expected) ==
    {[exc |-> e, sets |-> <<>>] : e \in CallErrors \cup {NoExc}}
    \cup {[exc |-> NoExc, sets |-> <<r>>] : r \in RecordSets(record_name, expected)}

RECURSIVE ScanRecordSets(_, _, _, _)
ScanRecordSets(sets, i, record_name, expected_value) ==
    IF i > Len(sets) THEN FALSE
    ELSE IF RStripDot(sets[i].Name) = record_name /\ sets[i].Type = "CNAME"
    THEN sets[i].Value = expected_value
    ELSE ScanRecordSets(sets, i + 1, record_name, expected_value)

verify_dns_update(answer, record_name, expected_value) ==
    IF IsException(answer.exc) THEN FALSE
    ELSE ScanRecordSets(answer.sets, 1, record_name, expected_value)

(***************************************************************************)
(* stop_sftp.py: find_server_by_name                                       *)
(***************************************************************************)
NameTag(value) == [Key |-> "Name", Value |-> value]
TagLists ==
    {<<>>,
     <<NameTag(ServerName), [Key |-> "AutoManaged", Value |-> <<"true">>]>>,
     <<NameTag(<<"other-server">>)>>}
\* one listed server: its tags, and what list_tags_for_resource does for it
ListedServers == [Tags : TagLists, tags_exc : CallErrors \cup {NoExc}]
ListServersAnswers ==
    {[exc |-> e, Servers |-> <<>>] : e \in CallErrors}
    \cup {[exc |-> NoExc, Servers |-> ss] : ss \in SeqsUpTo(ListedServers, MaxServers)}
\* the ServerId of the i-th listed server
ServerIdAt(i) == Str(<<"s-" \o ToString(i)>>)

HasNameTag(tags, server_name) ==
    \E k \in 1..Len(tags) : tags[k].Key = "Name" /\ tags[k].Value = server_name

RECURSIVE ScanServers(_, _, _)
ScanServers(servers, i, server_name) ==
    IF i > Len(servers) THEN PyNone
    ELSE IF IsClientError(servers[i].tags_exc)
    THEN ScanServers(servers, i + 1, server_name)
    ELSE IF IsException(servers[i].tags_exc) THEN PyNone
    ELSE IF HasNameTag(servers[i].Tags, server_name) THEN ServerIdAt(i)
    ELSE ScanServers(servers, i + 1, server_name)

\* a locator that takes the first listed server whatever its tags
find_server_by_name_FirstListed(answer, server_name) ==
    IF IsException(answer.exc) \/ answer.Servers = <<>> THEN PyNone
    ELSE ServerIdAt(1)

find_server_by_name(answer, server_name) ==
    IF IsException(answer.exc) THEN PyNone
    ELSE ScanServers(answer.Servers, 1, server_name)

(***************************************************************************)
(* The result an invocation returns.                                       *)
(***************************************************************************)
NoResponse ==
    [statusCode |-> 0, error_code |-> Absent, action |-> "",
     server_id |-> Absent, aws_hostname |-> Absent,
     connection_hostname |-> Absent, alias_hostname |-> Absent,
     dns_updated |-> FALSE, users |-> <<>>, previous_state |-> "",
     error |-> ""]
\* start_sftp.py lines 189-209, stop_sftp.py lines 90-110; error: what the
\* body's 'error' text takes from str(e)
ErrorResponse(e) ==
    [NoResponse EXCEPT !.statusCode = 500,
                       !.error = e.msg,
                       !.error_code = IF IsClientError(e) THEN Str(<<e.code>>)
                                      ELSE Absent]

(***************************************************************************)
(* State.                                                                  *)
(***************************************************************************)
VARIABLES
    handler,            \* "start" (start_sftp.py) or "stop" (stop_sftp.py)
    environ,            \* os.environ of the invocation
    pc,                 \* position in the handler; "done": it returned;
                        \* "crashed": an exception left the handler
    response,           \* what the handler returned
    calls,              \* names of the provider and DNS calls issued so far
    failed_at,          \* the step whose exception reached the outer except
    sftp_user_configs,  \* start: json.loads(SFTP_USER_CONFIGS)
    server_id,          \* start: the created server; stop: the located one
    elapsed,            \* poll loop: time.time() - start_time
    fetches,            \* poll loop: describe_server calls made
    sleeps,             \* poll loop: time.sleep(10) calls made
    wait_result,        \* how the poll loop ended ("" before)
    seen_state,         \* poll loop: the State of the answer that ended it
    attempt,            \* start: the hostname loop's counter
    pauses,             \* start: time.sleep(30) calls made
    server_hostname,    \* start
    alias_hostname,     \* start
    dns_step,           \* start: how the DNS step went ("" before)
    dns_answer,         \* start: what verify_dns_update's listing answered
    user_idx,           \* start: next element of sftp_user_configs (1-based)
    created_users,      \* start: indices of the users appended to created_users
    user_results,       \* start: per element visited, how it went
    servers,            \* stop: the answer find_server_by_name worked on
    tag_exists,         \* stop: some listed server carries Name = SERVER_NAME
    current_state,      \* stop: the State read right after locating
    users_n,            \* stop: number of users list_users answered with
    del_idx,            \* stop: next user to delete (1-based)
    cleanup_exc,        \* stop: the error the user-cleanup step raised
    delete_calls,       \* stop: delete_server calls issued
    fleet,              \* the provider's servers, in list_servers order
    created,            \* servers create_server has made so far
    history             \* the handlers of the completed invocations

waitVars == <<elapsed, fetches, sleeps, wait_result, seen_state>>
hostVars == <<attempt, pauses, server_hostname>>
dnsVars == <<alias_hostname, dns_step, dns_answer>>
userVars == <<user_idx, created_users, user_results>>
startVars == <<sftp_user_configs, hostVars, dnsVars, userVars>>
stopVars == <<servers, tag_exists, current_state, users_n, del_idx, cleanup_exc,
              delete_calls>>
\* the provider account: it outlives an invocation
accountVars == <<fleet, created, history>>
vars == <<handler, environ, pc, response, calls, failed_at, server_id,
          waitVars, startVars, stopVars, accountVars>>

NoAnswer == [exc |-> NoExc, Servers |-> <<>>]

Init ==
    /\ handler \in {"start", "stop"}
    /\ environ \in IF handler = "start" THEN StartEnvirons ELSE StopEnvirons
    /\ pc = "env"
    /\ response = NoResponse
    /\ calls = {}
    /\ failed_at = ""
    /\ sftp_user_configs = NoObject
    /\ server_id = PyNone
    /\ elapsed = 0 /\ fetches = 0 /\ sleeps = 0 /\ wait_result = ""
    /\ seen_state = ""
    /\ attempt = 0 /\ pauses = 0 /\ server_hostname = PyNone
    /\ alias_hostname = PyNone /\ dns_step = "" /\ dns_answer = NoListAnswer
    /\ user_idx = 1 /\ created_users = <<>> /\ user_results = <<>>
    /\ servers = NoAnswer /\ tag_exists = FALSE /\ current_state = ""
    /\ users_n = 0 /\ del_idx = 1 /\ cleanup_exc = NoExc /\ delete_calls = 0
    /\ fleet = <<>> /\ created = 0 /\ history = <<>>

\* start_sftp.py lines 31-33
domain_name == EnvGet(environ.DOMAIN_NAME, <<>>)
sftp_subdomain == EnvGet(environ.SFTP_SUBDOMAIN, <<"server">>)
hosted_zone_id == EnvGet(environ.HOSTED_ZONE_ID, <<>>)

\* the handler returns r
Return(r) == pc' = "done" /\ response' = r
\* exception e, raised at step `where`, reaches the handler's outer except
\* clauses (start_sftp.py lines 189-209, stop_sftp.py lines 90-110)
Raise(e, where) ==
    /\ pc' = "done"
    /\ response' = ErrorResponse(e)
    /\ failed_at' = where

ServerStates ==
    {"STARTING", "ONLINE", "OFFLINE", "STOPPING", "START_FAILED", "STOP_FAILED"}
\* what one describe_server call can answer
DescribeAnswers ==
    {[exc |-> e, State |-> ""] : e \in DescribeErrors}
    \cup {[exc |-> NoExc, State |-> st] : st \in ServerStates}

(***************************************************************************)
(* start_sftp.py: lambda_handler                                           *)
(***************************************************************************)
\* lines 12-18: os.environ[...] of SERVER_NAME, SFTP_ROLE_ARN, USER_ROLE_ARN
\* and S3_BUCKET, outside every try: a missing one raises KeyError out of
\* the handler.
StartReadEnv ==
    /\ handler = "start" /\ pc = "env"
    /\ pc' = IF environ.required THEN "s_parse" ELSE "crashed"
    /\ UNCHANGED <<accountVars, handler, environ, response, calls, failed_at, server_id,
                   waitVars, startVars, stopVars>>

\* line 23: except json.JSONDecodeError
ParseErrorCaught(e) == e.t = "JSONDecodeError"

\* lines 20-28
StartParseConfigs ==
    /\ handler = "start" /\ pc = "s_parse"
    /\ IF environ.SFTP_USER_CONFIGS = Absent
       THEN \* KeyError, which the except clause does not name
            /\ pc' = "crashed"
            /\ UNCHANGED <<response, sftp_user_configs>>
       ELSE LET r == json_loads(environ.SFTP_USER_CONFIGS.v)
            IN  IF IsException(r.exc)
                THEN /\ IF ParseErrorCaught(r.exc)
                        THEN Return([NoResponse EXCEPT !.statusCode = 400])
                        ELSE pc' = "crashed" /\ UNCHANGED response
                     /\ UNCHANGED sftp_user_configs
                ELSE /\ sftp_user_configs' = r.value
                     /\ pc' = "s_create"
                     /\ UNCHANGED response
    /\ UNCHANGED <<accountVars, handler, environ, calls, failed_at, server_id,
                   waitVars, hostVars, dnsVars, userVars, stopVars>>

\* lines 35-56
StartCreateServer ==
    /\ handler = "start" /\ pc = "s_create"
    /\ IF ~HasLen(sftp_user_configs)
       THEN \* line 38: len() of an int raises TypeError
            /\ Raise(OtherExc("TypeError"), "len")
            /\ UNCHANGED <<calls, server_id>>
       ELSE /\ calls' = calls \cup {"create_server"}
            /\ \E e \in CallErrors \cup {NoExc} :
                 IF IsException(e)
                 THEN Raise(e, "create_server") /\ UNCHANGED server_id
                 ELSE /\ server_id' = Str(NewServerId)
                      /\ pc' = "s_wait"
                      /\ UNCHANGED <<response, failed_at>>
    /\ UNCHANGED <<accountVars, handler, environ, waitVars, startVars, stopVars>>

(***************************************************************************)
(* start_sftp.py: wait_for_server_online                                   *)
(***************************************************************************)
\* a wait that knows no fatal states and keeps polling
OnlineWaitOutcome_NoFatal(obs) ==
    IF IsException(obs.exc)
    THEN IF IsClientError(obs.exc) /\ obs.exc.code = "ResourceNotFoundException"
         THEN "return_false"
         ELSE "raise"
    ELSE IF obs.State \in {"ONLINE", "STOP_FAILED", "START_FAILED"}
    THEN "return_true"
    ELSE "sleep"

\* a wait that sleeps once more after it has seen ONLINE
OnlineWaitOutcome_SleepsOnReady(obs) ==
    IF IsException(obs.exc)
    THEN IF IsClientError(obs.exc) /\ obs.exc.code = "ResourceNotFoundException"
         THEN "return_false"
         ELSE "raise"
    ELSE IF obs.State \in {"STOP_FAILED", "START_FAILED"} THEN "raise_fatal"
    ELSE "sleep"

\* lines 324-341: what one iteration does with the answer of describe_server
OnlineWaitOutcome(obs) ==
    IF IsException(obs.exc)
    THEN IF IsClientError(obs.exc) /\ obs.exc.code = "ResourceNotFoundException"
         THEN "return_false"
         ELSE "raise"
    ELSE IF obs.State = "ONLINE" THEN "return_true"
    ELSE IF obs.State \in {"STOP_FAILED", "START_FAILED"} THEN "raise_fatal"
    ELSE "sleep"

\* what the answer of describe_server showed ("" while the server is still
\* on its way); recorded apart from what the loop does with it
OnlineObserved(obs) ==
    IF IsException(obs.exc)
    THEN IF IsClientError(obs.exc) /\ obs.exc.code = "ResourceNotFoundException"
         THEN "notfound"
         ELSE "error"
    ELSE IF obs.State = "ONLINE" THEN "online"
    ELSE IF obs.State \in {"STOP_FAILED", "START_FAILED"} THEN "fatal"
    ELSE ""

\* a loop that still fetches when the deadline is exactly reached
WithinDeadline_Inclusive == elapsed <= max_wait_time

\* line 323: the loop condition
WithinDeadline == elapsed < max_wait_time

\* lines 323-341: one iteration of the loop
WaitOnlinePoll ==
    /\ handler = "start" /\ pc = "s_wait"
    /\ WithinDeadline
    /\ fetches' = fetches + 1
    /\ calls' = calls \cup {"describe_server"}
    /\ \E obs \in DescribeAnswers :
         LET out == OnlineWaitOutcome(obs)
         IN  /\ wait_result' = OnlineObserved(obs)
             /\ seen_state' = IF OnlineObserved(obs) = "" THEN "" ELSE obs.State
             /\ CASE out \in {"return_true", "return_false"} ->
                    /\ pc' = "s_waited"
                    /\ UNCHANGED <<response, failed_at, elapsed, sleeps>>
               [] out = "raise_fatal" ->
                    /\ Raise(FailedStateExc(obs.State), "wait")
                    /\ UNCHANGED <<elapsed, sleeps>>
               [] out = "raise" ->
                    /\ Raise(obs.exc, "wait")
                    /\ UNCHANGED <<elapsed, sleeps>>
               [] OTHER ->
                    /\ \E lag \in {0, MaxLag} :
                         elapsed' = elapsed + poll_sleep + lag
                    /\ sleeps' = sleeps + 1
                    /\ UNCHANGED <<pc, response, failed_at>>
    /\ UNCHANGED <<accountVars, handler, environ, server_id, startVars, stopVars>>

\* line 343: the deadline has passed
WaitOnlineTimeout ==
    /\ handler = "start" /\ pc = "s_wait"
    /\ ~WithinDeadline
    /\ wait_result' = "timeout"
    /\ Raise(OtherExc("Exception"), "wait")
    /\ UNCHANGED <<accountVars, handler, environ, calls, server_id, elapsed, fetches, sleeps,
                   seen_state, startVars, stopVars>>

\* line 60: the handler drops what wait_for_server_online returned and goes
\* on to lines 62-65
StartAfterWait ==
    /\ handler = "start" /\ pc = "s_waited"
    /\ pc' = "s_hostname"
    /\ elapsed' = 0 /\ fetches' = 0 /\ sleeps' = 0
    /\ attempt' = 0 /\ server_hostname' = PyNone
    /\ UNCHANGED <<accountVars, handler, environ, response, calls, failed_at, server_id,
                   wait_result, seen_state, sftp_user_configs, pauses, dnsVars,
                   userVars, stopVars>>

\* lines 67-77: one attempt of the hostname loop
HostnameAttempt ==
    /\ handler = "start" /\ pc = "s_hostname"
    /\ attempt < max_hostname_attempts
    /\ calls' = calls \cup {"describe_server"}
    /\ \/ \E e \in DescribeErrors :
            /\ Raise(e, "hostname")
            /\ UNCHANGED hostVars
       \/ \E server \in ServerInfos, session_region \in Regions :
            LET h == get_server_hostname(server, session_region)
                last == attempt + 1 >= max_hostname_attempts
            IN  /\ server_hostname' = h
                /\ attempt' = attempt + 1
                /\ pauses' = IF ~HostnameUsable(h) /\ ~last
                             THEN pauses + 1 ELSE pauses
                /\ pc' = IF HostnameUsable(h) \/ last
                         THEN "s_fallback" ELSE "s_hostname"
                /\ UNCHANGED <<response, failed_at>>
    /\ UNCHANGED <<accountVars, handler, environ, server_id, waitVars, sftp_user_configs,
                   dnsVars, userVars, stopVars>>

\* lines 79-86
StartFallback ==
    /\ handler = "start" /\ pc = "s_fallback"
    /\ \E session_region \in Regions :
         server_hostname' =
             HostnameFallback(server_hostname, server_id, session_region)
    /\ pc' = "s_dns"
    /\ UNCHANGED <<accountVars, handler, environ, response, calls, failed_at, server_id,
                   waitVars, sftp_user_configs, attempt, pauses,
                   dnsVars, userVars, stopVars>>

(***************************************************************************)
(* start_sftp.py: the DNS step (lines 88-111) with update_dns_record       *)
(***************************************************************************)
\* lines 280-287: update_dns_record turns a ClientError into a plain
\* Exception and lets every other exception through
update_dns_record_raises(e) ==
    IF IsClientError(e) THEN OtherExc("Route53Error") ELSE e

\* Lines 95-99 with update_dns_record (lines 253-278): the ways the DNS
\* calls of one run can go.  exc: what the Route 53 call raised inside
\* update_dns_record; answer: what list_resource_record_sets answered inside
\* verify_dns_update; the result of verify_dns_update is not used.
DnsRuns(alias, target) ==
    {[exc |-> e, step |-> "change_failed", answer |-> NoListAnswer,
      calls |-> {"change_resource_record_sets"}] : e \in CallErrors}
    \cup {[exc |-> e, step |-> "wait_failed", answer |-> NoListAnswer,
           calls |-> {"change_resource_record_sets", "waiter.wait"}] :
              e \in CallErrors}
    \cup {[exc |-> NoExc, answer |-> a,
           step |-> IF verify_dns_update(a, alias.v, target)
                    THEN "verified" ELSE "unverified",
           calls |-> {"change_resource_record_sets", "waiter.wait",
                      "list_resource_record_sets"}] :
              a \in ListAnswers(alias.v, target)}

\* a handler that names ClientError only
DnsErrorCaught_ClientErrorOnly(e) == IsClientError(e)

\* line 101: except Exception
DnsErrorCaught(e) == IsException(e)

\* a DNS step that does not ask for the zone id
DnsConfigured_WithoutZone == Truthy(domain_name) /\ Truthy(server_hostname)

\* line 90
DnsConfigured ==
    Truthy(domain_name) /\ Truthy(hosted_zone_id) /\ Truthy(server_hostname)

\* line 91
AliasName == Str(sftp_subdomain.v \o <<".">> \o domain_name.v)

DnsStep ==
    /\ handler = "start" /\ pc = "s_dns"
    /\ attempt' = 0 /\ pauses' = 0
    /\ IF DnsConfigured
       THEN /\ alias_hostname' = AliasName
            /\ \E r \in DnsRuns(AliasName, server_hostname) :
                 LET raised == update_dns_record_raises(r.exc)
                 IN  /\ calls' = calls \cup r.calls
                     /\ dns_step' = r.step
                     /\ dns_answer' = r.answer
                     /\ IF IsException(raised) /\ ~DnsErrorCaught(raised)
                        THEN Raise(raised, "dns")
                        ELSE /\ pc' = "s_users"
                             /\ UNCHANGED <<response, failed_at>>
       ELSE /\ alias_hostname' = PyNone
            /\ dns_step' = "skipped"
            /\ dns_answer' = NoListAnswer
            /\ pc' = "s_users"
            /\ UNCHANGED <<response, calls, failed_at>>
    /\ user_idx' = 1 /\ created_users' = <<>> /\ user_results' = <<>>
    /\ UNCHANGED <<accountVars, handler, environ, server_id, waitVars, sftp_user_configs,
                   server_hostname, stopVars>>

(***************************************************************************)
(* start_sftp.py: the user loop (lines 113-152)                            *)
(***************************************************************************)
\* lines 119-120: cfg['username'], cfg['home_dir'] -- what the subscripts raise
SubscriptError(cfg) ==
    IF cfg.type # "dict" THEN OtherExc("TypeError")
    ELSE IF "username" \notin cfg.keys \/ "home_dir" \notin cfg.keys
    THEN OtherExc("KeyError")
    ELSE NoExc

\* lines 150-152: the except Exception clause formats its message with
\* cfg.get(...), which raises AttributeError when cfg is not a dict; that
\* exception leaves the loop
GenericHandlerRaises(cfg) ==
    IF cfg.type # "dict" THEN OtherExc("AttributeError") ELSE NoExc

\* a loop without the except KeyError clause of lines 147-149, whose
\* except Exception clause re-raises
UserErrorOutcome_Abort(cfg, e) == e

\* lines 147-152: the loop's except clauses: how a failed element ends
\* ("continue", or the exception that leaves the loop)
UserErrorOutcome(cfg, e) ==
    IF e.t = "KeyError" THEN NoExc
    ELSE GenericHandlerRaises(cfg)

CreateUser ==
    /\ handler = "start" /\ pc = "s_users"
    /\ user_idx <= Len(sftp_user_configs.items)
    /\ LET cfg == sftp_user_configs.items[user_idx]
           sub == SubscriptError(cfg)
       IN  IF IsException(sub)
           THEN /\ UNCHANGED <<calls, created_users>>
                /\ IF IsException(UserErrorOutcome(cfg, sub))
                   THEN /\ Raise(UserErrorOutcome(cfg, sub), "users")
                        /\ UNCHANGED <<user_idx, user_results>>
                   ELSE /\ user_idx' = user_idx + 1
                        /\ user_results' = Append(user_results, "missing_field")
                        /\ UNCHANGED <<pc, response, failed_at>>
           ELSE /\ calls' = calls \cup {"create_user"}
                /\ \E e \in CallErrors \cup {NoExc} :
                     IF ~IsException(e)
                     THEN /\ created_users' = Append(created_users, user_idx)
                          /\ user_results' = Append(user_results, "created")
                          /\ user_idx' = user_idx + 1
                          /\ UNCHANGED <<pc, response, failed_at>>
                     ELSE IF IsException(UserErrorOutcome(cfg, e))
                     THEN /\ Raise(UserErrorOutcome(cfg, e), "users")
                          /\ UNCHANGED <<user_idx, created_users, user_results>>
                     ELSE /\ user_results' = Append(user_results, "rejected")
                          /\ user_idx' = user_idx + 1
                          /\ UNCHANGED <<pc, response, failed_at, created_users>>
    /\ UNCHANGED <<accountVars, handler, environ, server_id, waitVars, sftp_user_configs,
                   hostVars, dnsVars, stopVars>>

\* lines 154-187
StartRespond ==
    /\ handler = "start" /\ pc = "s_users"
    /\ user_idx > Len(sftp_user_configs.items)
    /\ Return([NoResponse EXCEPT
                 !.statusCode = 200,
                 !.server_id = server_id,
                 !.aws_hostname = server_hostname,
                 !.connection_hostname =
                     IF Truthy(alias_hostname) THEN alias_hostname
                     ELSE server_hostname,
                 !.users = created_users,
                 !.dns_updated = Truthy(alias_hostname),
                 !.alias_hostname =
                     IF Truthy(alias_hostname) THEN alias_hostname ELSE Absent])
    /\ UNCHANGED <<accountVars, handler, environ, calls, failed_at, server_id, waitVars,
                   startVars, stopVars>>

(***************************************************************************)
(* stop_sftp.py: lambda_handler                                            *)
(***************************************************************************)
\* lines 12-13: os.environ['SERVER_NAME'] outside the try
StopReadEnv ==
    /\ handler = "stop" /\ pc = "env"
    /\ pc' = IF environ.required THEN "t_find" ELSE "crashed"
    /\ UNCHANGED <<accountVars, handler, environ, response, calls, failed_at, server_id,
                   waitVars, startVars, stopVars>>

\* line 19: find_server_by_name(transfer, server_name)
StopFind ==
    /\ handler = "stop" /\ pc = "t_find"
    /\ \E answer \in ListServersAnswers :
         /\ servers' = answer
         /\ server_id' = find_server_by_name(answer, ServerName)
         /\ tag_exists' = \E i \in 1..Len(answer.Servers) :
                              HasNameTag(answer.Servers[i].Tags, ServerName)
         /\ calls' = calls \cup {"list_servers"}
                \cup (IF answer.Servers = <<>> THEN {}
                      ELSE {"list_tags_for_resource"})
    /\ pc' = "t_found"
    /\ UNCHANGED <<accountVars, handler, environ, response, failed_at, waitVars, startVars,
                   current_state, users_n, del_idx, cleanup_exc, delete_calls>>

\* lines 21-29
StopCheckFound ==
    /\ handler = "stop" /\ pc = "t_found"
    \* what the locator worked on stays on record in the run that ends here
    /\ servers' = IF Truthy(server_id) THEN NoAnswer ELSE servers
    /\ IF ~Truthy(server_id)
       THEN Return([NoResponse EXCEPT !.statusCode = 200,
                                      !.action = "none_required"])
       ELSE pc' = "t_describe" /\ UNCHANGED response
    /\ UNCHANGED <<accountVars, handler, environ, calls, failed_at, server_id, waitVars,
                   startVars, tag_exists, current_state, users_n, del_idx,
                   cleanup_exc, delete_calls>>

\* lines 31-35
StopDescribe ==
    /\ handler = "stop" /\ pc = "t_describe"
    /\ calls' = calls \cup {"describe_server"}
    /\ \E obs \in DescribeAnswers :
         IF IsException(obs.exc)
         THEN Raise(obs.exc, "describe") /\ UNCHANGED current_state
         ELSE /\ current_state' = obs.State
              /\ pc' = "t_list_users"
              /\ UNCHANGED <<response, failed_at>>
    /\ UNCHANGED <<accountVars, handler, environ, server_id, waitVars, startVars, servers,
                   tag_exists, users_n, del_idx, cleanup_exc, delete_calls>>

\* line 45: except ClientError
CleanupErrorCaught(e) == IsClientError(e)

\* lines 38-39 (and 45-47)
StopListUsers ==
    /\ handler = "stop" /\ pc = "t_list_users"
    /\ calls' = calls \cup {"list_users"}
    /\ \/ \E n \in 0..MaxUsers :
            /\ users_n' = n
            /\ del_idx' = 1
            /\ pc' = "t_delete_user"
            /\ UNCHANGED <<response, failed_at, cleanup_exc>>
       \/ \E e \in CallErrors :
            /\ cleanup_exc' = e
            /\ IF CleanupErrorCaught(e)
               THEN pc' = "t_stop" /\ UNCHANGED <<response, failed_at>>
               ELSE Raise(e, "cleanup")
            /\ UNCHANGED <<users_n, del_idx>>
    /\ UNCHANGED <<accountVars, handler, environ, server_id, waitVars, startVars, servers,
                   tag_exists, current_state, delete_calls>>

\* lines 40-44 (and 45-47): one iteration of the deletion loop
StopDeleteUser ==
    /\ handler = "stop" /\ pc = "t_delete_user"
    /\ IF del_idx > users_n
       THEN /\ pc' = "t_stop"
            /\ UNCHANGED <<response, calls, failed_at, del_idx, cleanup_exc>>
       ELSE /\ calls' = calls \cup {"delete_user"}
            /\ \E e \in CallErrors \cup {NoExc} :
                 IF ~IsException(e)
                 THEN /\ del_idx' = del_idx + 1
                      /\ UNCHANGED <<pc, response, failed_at, cleanup_exc>>
                 ELSE /\ cleanup_exc' = e
                      /\ IF CleanupErrorCaught(e)
                         THEN pc' = "t_stop" /\ UNCHANGED <<response, failed_at>>
                         ELSE Raise(e, "cleanup")
                      /\ UNCHANGED del_idx
    /\ UNCHANGED <<accountVars, handler, environ, server_id, waitVars, startVars, servers,
                   tag_exists, current_state, users_n, delete_calls>>

\* line 50: if current_state == 'ONLINE'
NeedsStop(state) == state = "ONLINE"

\* a stop phase that waits only after its own stop_server
NeedsStopWait_OnlineOnly(state) == state = "ONLINE"

\* lines 50-59: wait_for_server_stopped runs in the ONLINE branch and in the
\* STOPPING branch
NeedsStopWait(state) == state \in {"ONLINE", "STOPPING"}

\* lines 49-61: the stop phase up to the wait
StopStopServer ==
    /\ handler = "stop" /\ pc = "t_stop"
    /\ IF NeedsStop(current_state)
       THEN /\ calls' = calls \cup {"stop_server"}
            /\ \E e \in CallErrors \cup {NoExc} :
                 IF IsException(e)
                 THEN Raise(e, "stop_server")
                 ELSE /\ pc' = IF NeedsStopWait(current_state)
                                THEN "t_wait" ELSE "t_delete"
                      /\ UNCHANGED <<response, failed_at>>
       ELSE /\ pc' = IF NeedsStopWait(current_state)
                      THEN "t_wait" ELSE "t_delete"
            /\ UNCHANGED <<response, calls, failed_at>>
    /\ UNCHANGED <<accountVars, handler, environ, server_id, waitVars, startVars, stopVars>>

(***************************************************************************)
(* stop_sftp.py: wait_for_server_stopped                                   *)
(***************************************************************************)
\* a wait that treats STOP_FAILED as the bring-up wait does
StoppedWaitOutcome_FatalRaises(obs) ==
    IF IsException(obs.exc)
    THEN IF IsClientError(obs.exc) /\ obs.exc.code = "ResourceNotFoundException"
         THEN "return_true"
         ELSE "raise"
    ELSE IF obs.State = "OFFLINE" THEN "return_true"
    ELSE IF obs.State = "STOP_FAILED" THEN "raise"
    ELSE "sleep"

\* lines 139-157: what one iteration does with the answer of describe_server
StoppedWaitOutcome(obs) ==
    IF IsException(obs.exc)
    THEN IF IsClientError(obs.exc) /\ obs.exc.code = "ResourceNotFoundException"
         THEN "return_true"
         ELSE "raise"
    ELSE IF obs.State = "OFFLINE" THEN "return_true"
    ELSE IF obs.State = "STOP_FAILED" THEN "return_true"
    ELSE "sleep"

\* what the answer of describe_server showed ("" while still stopping)
StoppedObserved(obs) ==
    IF IsException(obs.exc)
    THEN IF IsClientError(obs.exc) /\ obs.exc.code = "ResourceNotFoundException"
         THEN "notfound"
         ELSE "error"
    ELSE IF obs.State = "OFFLINE" THEN "offline"
    ELSE IF obs.State = "STOP_FAILED" THEN "stop_failed"
    ELSE ""

\* lines 138-157: one iteration of the loop
WaitStoppedPoll ==
    /\ handler = "stop" /\ pc = "t_wait"
    /\ WithinDeadline
    /\ fetches' = fetches + 1
    /\ calls' = calls \cup {"describe_server"}
    /\ \E obs \in DescribeAnswers :
         LET out == StoppedWaitOutcome(obs)
         IN  /\ wait_result' = StoppedObserved(obs)
             /\ seen_state' = IF StoppedObserved(obs) = "" THEN "" ELSE obs.State
             /\ CASE out = "return_true" ->
                    /\ pc' = "t_waited"
                    /\ UNCHANGED <<response, failed_at, elapsed, sleeps>>
               [] out = "raise" ->
                    /\ Raise(obs.exc, "wait")
                    /\ UNCHANGED <<elapsed, sleeps>>
               [] OTHER ->
                    /\ \E lag \in {0, MaxLag} :
                         elapsed' = elapsed + poll_sleep + lag
                    /\ sleeps' = sleeps + 1
                    /\ UNCHANGED <<pc, response, failed_at>>
    /\ UNCHANGED <<accountVars, handler, environ, server_id, startVars, stopVars>>

\* lines 159-160: the deadline has passed: the function returns False
WaitStoppedTimeout ==
    /\ handler = "stop" /\ pc = "t_wait"
    /\ ~WithinDeadline
    /\ wait_result' = "timeout"
    /\ pc' = "t_waited"
    /\ UNCHANGED <<accountVars, handler, environ, response, calls, failed_at, server_id,
                   elapsed, fetches, sleeps, seen_state, startVars, stopVars>>

\* lines 55 and 59: the handler drops what wait_for_server_stopped returned
StopAfterWait ==
    /\ handler = "stop" /\ pc = "t_waited"
    /\ pc' = "t_delete"
    /\ elapsed' = 0 /\ fetches' = 0 /\ sleeps' = 0
    /\ UNCHANGED <<accountVars, handler, environ, response, calls, failed_at, server_id,
                   wait_result, seen_state, startVars, stopVars>>

\* lines 63-65
StopDeleteServer ==
    /\ handler = "stop" /\ pc = "t_delete"
    /\ calls' = calls \cup {"delete_server"}
    /\ delete_calls' = delete_calls + 1
    /\ \E e \in CallErrors \cup {NoExc} :
         IF IsException(e)
         THEN Raise(e, "delete_server")
         ELSE pc' = "t_verify" /\ UNCHANGED <<response, failed_at>>
    /\ UNCHANGED <<accountVars, handler, environ, server_id, waitVars, startVars, servers,
                   tag_exists, current_state, users_n, del_idx, cleanup_exc>>

\* line 74: except ClientError
VerifyErrorCaught(e) == IsClientError(e)

\* lines 67-88
StopVerify ==
    /\ handler = "stop" /\ pc = "t_verify"
    /\ calls' = calls \cup {"describe_server_verify"}
    /\ \E obs \in DescribeAnswers :
         IF IsException(obs.exc) /\ ~VerifyErrorCaught(obs.exc)
         THEN Raise(obs.exc, "verify")
         ELSE /\ Return([NoResponse EXCEPT !.statusCode = 200,
                                           !.action = "deleted",
                                           !.server_id = server_id,
                                           !.previous_state = current_state])
              /\ UNCHANGED failed_at
    /\ UNCHANGED <<accountVars, handler, environ, server_id, waitVars, startVars, stopVars>>

(***************************************************************************)
(* The specification: one invocation of one handler.                       *)
(***************************************************************************)
Next ==
    \/ StartReadEnv
    \/ StartParseConfigs
    \/ StartCreateServer
    \/ WaitOnlinePoll
    \/ WaitOnlineTimeout
    \/ StartAfterWait
    \/ HostnameAttempt
    \/ StartFallback
    \/ DnsStep
    \/ CreateUser
    \/ StartRespond
    \/ StopReadEnv
    \/ StopFind
    \/ StopCheckFound
    \/ StopDescribe
    \/ StopListUsers
    \/ StopDeleteUser
    \/ StopStopServer
    \/ WaitStoppedPoll
    \/ WaitStoppedTimeout
    \/ StopAfterWait
    \/ StopDeleteServer
    \/ StopVerify

Spec == Init /\ [][Next]_vars

(***************************************************************************)
(* A sequence of completed, non-overlapping invocations against one        *)
(* provider account, every provider and DNS call succeeding.  An           *)
(* invocation is one step: what its handler does to the account, and what  *)
(* it returns, on the path where nothing raises.                           *)
(***************************************************************************)
\* start_sftp.py lines 46-51: the tags create_server is given
CreatedTags ==
    <<NameTag(ServerName), [Key |-> "AutoManaged", Value |-> <<"true">>]>>
\* servers of the account that this system did not make
ForeignTags == {<<>>, <<NameTag(<<"other-server">>)>>}
ForeignFleets ==
    {[i \in 1..Len(ts) |-> [uid |-> 0, Tags |-> ts[i]]] :
        ts \in SeqsUpTo(ForeignTags, 1)}
\* stop_sftp.py lines 115-119: what list_servers and list_tags_for_resource
\* answer for the account
Listing(account) ==
    [exc |-> NoExc,
     Servers |-> [i \in 1..Len(account) |->
                     [Tags |-> account[i].Tags, tags_exc |-> NoExc]]]
\* the account after delete_server of the server listed at position i
WithoutServer(account, i) ==
    SubSeq(account, 1, i - 1) \o SubSeq(account, i + 1, Len(account))

\* the environment of the two functions: no users, no DNS alias
BringUpEnviron ==
    [required |-> TRUE,
     SFTP_USER_CONFIGS |-> Str([json |-> "array", items |-> <<>>]),
     DOMAIN_NAME |-> Str(<<>>), SFTP_SUBDOMAIN |-> Absent,
     HOSTED_ZONE_ID |-> Str(<<>>)]
TearDownEnviron ==
    [required |-> TRUE, SFTP_USER_CONFIGS |-> Absent,
     DOMAIN_NAME |-> Str(<<>>), SFTP_SUBDOMAIN |-> Absent,
     HOSTED_ZONE_ID |-> Str(<<>>)]

InitInvocations ==
    /\ handler = "" /\ pc = "idle"
    /\ environ = TearDownEnviron
    /\ response = NoResponse
    /\ calls = {}
    /\ failed_at = ""
    /\ sftp_user_configs = NoObject
    /\ server_id = PyNone
    /\ elapsed = 0 /\ fetches = 0 /\ sleeps = 0 /\ wait_result = ""
    /\ seen_state = ""
    /\ attempt = 0 /\ pauses = 0 /\ server_hostname = PyNone
    /\ alias_hostname = PyNone /\ dns_step = "" /\ dns_answer = NoListAnswer
    /\ user_idx = 1 /\ created_users = <<>> /\ user_results = <<>>
    /\ servers = NoAnswer /\ tag_exists = FALSE /\ current_state = ""
    /\ users_n = 0 /\ del_idx = 1 /\ cleanup_exc = NoExc /\ delete_calls = 0
    /\ fleet \in ForeignFleets /\ created = 0 /\ history = <<>>

\* start_sftp.py lambda_handler, nothing raising: lines 42-56 make a new
\* server whatever the account holds, lines 58-187 wait for it, resolve its
\* hostname and return 200
InvokeStart ==
    /\ Len(history) < MaxInvocations
    /\ handler' = "start" /\ environ' = BringUpEnviron
    /\ created' = created + 1
    /\ fleet' = Append(fleet, [uid |-> created + 1, Tags |-> CreatedTags])
    /\ history' = Append(history, "start")
    /\ server_id' = ServerIdAt(Len(fleet) + 1)
    /\ calls' = {"create_server", "describe_server"}
    /\ delete_calls' = 0
    /\ Return([NoResponse EXCEPT
                 !.statusCode = 200,
                 !.server_id = ServerIdAt(Len(fleet) + 1),
                 !.aws_hostname = Str(EndpointHost),
                 !.connection_hostname = Str(EndpointHost)])
    /\ UNCHANGED <<failed_at, waitVars, startVars, servers, tag_exists,
                   current_state, users_n, del_idx, cleanup_exc>>

\* stop_sftp.py lambda_handler, nothing raising: lines 19-29 locate one
\* server and return none_required without it; lines 31-88 stop it when it
\* is ONLINE, delete that one server and return deleted
InvokeStop ==
    /\ Len(history) < MaxInvocations
    /\ handler' = "stop" /\ environ' = TearDownEnviron
    /\ history' = Append(history, "stop")
    /\ LET found == find_server_by_name(Listing(fleet), ServerName)
       IN  /\ server_id' = found
           /\ IF ~Truthy(found)
              THEN /\ Return([NoResponse EXCEPT !.statusCode = 200,
                                                !.action = "none_required"])
                   /\ calls' = {"list_servers"} \cup
                           (IF fleet = <<>> THEN {}
                            ELSE {"list_tags_for_resource"})
                   /\ delete_calls' = 0
                   /\ UNCHANGED fleet
              ELSE /\ Return([NoResponse EXCEPT !.statusCode = 200,
                                                !.action = "deleted",
                                                !.server_id = found,
                                                !.previous_state = "ONLINE"])
                   /\ calls' = {"list_servers", "list_tags_for_resource",
                                "describe_server", "list_users", "stop_server",
                                "delete_server", "describe_server_verify"}
                   /\ delete_calls' = 1
                   /\ fleet' = WithoutServer(fleet,
                          CHOOSE i \in 1..Len(fleet) : ServerIdAt(i) = found)
    /\ UNCHANGED <<failed_at, waitVars, startVars, servers, tag_exists,
                   current_state, users_n, del_idx, cleanup_exc, created>>

NextInvocations == InvokeStart \/ InvokeStop

SpecInvocations == InitInvocations /\ [][NextInvocations]_vars

(***************************************************************************)
(* Properties.                                                             *)
(***************************************************************************)
StartDone == handler = "start" /\ pc = "done"
StopDone == handler = "stop" /\ pc = "done"
\* update_dns_record returned without raising
DnsUpsertCompleted == dns_step \in {"verified", "unverified"}
\* the DNS step ran and something in it failed
DnsStepFailed == dns_step \in {"change_failed", "wait_failed", "unverified"}
\* SFTP_USER_CONFIGS was loaded as a list of dicts
ConfigIsRecordArray ==
    /\ sftp_user_configs.type = "list"
    /\ \A i \in 1..Len(sftp_user_configs.items) :
          sftp_user_configs.items[i].type = "dict"
\* SFTP_USER_CONFIGS is set and is not the text of a JSON array of objects
ConfigMalformed ==
    /\ environ.SFTP_USER_CONFIGS # Absent
    /\ LET text == environ.SFTP_USER_CONFIGS.v
       IN  \/ text.json # "array"
           \/ \E i \in 1..Len(text.items) : text.items[i].json # "object"
NumConfigs == Len(sftp_user_configs.items)
\* the positions of user_results that hold "created", in order
CreatedPositions ==
    SelectSeq([i \in 1..Len(user_results) |-> i],
              LAMBDA i : user_results[i] = "created")

\* C1: every bring-up run that returns 200 reports alias_hostname,
\* dns_updated = true and connection_hostname = alias only if the DNS upsert
\* completed without error in that run; every other run reports
\* dns_updated = false, no alias_hostname and connection_hostname equal to
\* the raw server hostname.
C1_AliasOnlyIfUpsertCompleted ==
    (StartDone /\ response.statusCode = 200) =>
        IF DnsUpsertCompleted
        THEN TRUE
        ELSE /\ ~response.dns_updated
             /\ response.alias_hostname = Absent
             /\ response.connection_hostname = response.aws_hostname

\* C2: whatever fails in the DNS step (the upsert call, the propagation
\* wait, the read-back verification), the bring-up workflow is not aborted
\* by it: it goes on to the user loop, and for a configuration that is an
\* array of user records the loop visits every user spec and the invocation
\* returns 200.
C2_DnsFailureDoesNotAbort ==
    (handler = "start" /\ DnsStepFailed) =>
        /\ pc \in {"s_users", "done"}
        /\ failed_at # "dns"
        /\ (pc = "done" /\ ConfigIsRecordArray) =>
               /\ response.statusCode = 200
               /\ Len(user_results) = NumConfigs

C2_Witness ==
    /\ StartDone /\ dns_step = "wait_failed"
    /\ response.statusCode = 200
    /\ Len(user_results) = 2

\* C3: in tear-down, once the server is located and described, every error
\* raised in the user-cleanup step (list_users, or delete_user of the k-th
\* user) leaves the workflow running: unless the stop phase itself raises,
\* delete_server is issued.
C3_CleanupErrorStillDeletes ==
    (StopDone /\ IsException(cleanup_exc)
        /\ failed_at \notin {"stop_server", "wait"}) =>
        "delete_server" \in calls

\* C4: when no listed server carries the tag Name = SERVER_NAME, tear-down
\* returns 200 with action none_required and issues none of describe_server,
\* list_users, delete_user, stop_server, delete_server.
C4_NoMatchNothingRequired ==
    (handler = "stop" /\ pc \notin {"env", "t_find", "crashed"} /\ ~tag_exists) =>
        /\ pc \in {"t_found", "done"}
        /\ calls \cap {"describe_server", "list_users", "delete_user",
                        "stop_server", "delete_server",
                        "describe_server_verify"} = {}
        /\ pc = "done" =>
               /\ response.statusCode = 200
               /\ response.action = "none_required"

C4_Witness ==
    /\ StopDone /\ ~tag_exists
    /\ "list_tags_for_resource" \in calls
    /\ response.action = "none_required"

\* C5: for a batch of N user records of which M fail (a required key is
\* missing, or create_user is rejected), the user loop visits every record
\* in input order, never aborts, and the reported users are exactly the
\* N - M successful ones in input order.
C5_UserBatch ==
    (handler = "start" /\ dns_step # "" /\ ConfigIsRecordArray) =>
        /\ pc \in {"s_users", "done"}
        /\ failed_at # "users"
        /\ Len(user_results) = user_idx - 1
        /\ \A i \in 1..Len(user_results) :
              (user_results[i] = "missing_field") <=>
                  ~({"username", "home_dir"} \subseteq
                        sftp_user_configs.items[i].keys)
        /\ created_users = CreatedPositions
        /\ pc = "done" =>
               /\ response.statusCode = 200
               /\ Len(user_results) = NumConfigs
               /\ response.users = created_users
               /\ Len(response.users) = NumConfigs -
                      Cardinality({i \in 1..NumConfigs :
                                      user_results[i] # "created"})

C5_Witness ==
    /\ StartDone /\ response.statusCode = 200
    /\ user_results = <<"rejected", "created">>
    /\ response.users = <<2>>

\* C6: if the bring-up online-wait ends on a fatal state (START_FAILED,
\* STOP_FAILED) or on its deadline, the invocation returns 500 and issues
\* neither the DNS upsert nor any create_user.
C6_OnlineWaitFailureIsFatal ==
    (handler = "start" /\ wait_result \in {"fatal", "timeout"}) =>
        /\ pc = "done"
        /\ response.statusCode = 500
        /\ calls \cap {"change_resource_record_sets", "create_user"} = {}

C6_Witness ==
    /\ StartDone /\ wait_result = "timeout"
    /\ elapsed >= max_wait_time
    /\ response.statusCode = 500

\* C7: if the tear-down stop-wait ends on its deadline or on STOP_FAILED,
\* the workflow does not fail there: delete_server is issued.
C7_StopWaitStillDeletes ==
    (handler = "stop" /\ wait_result \in {"timeout", "stop_failed"}) =>
        /\ pc \in {"t_waited", "t_delete", "t_verify", "done"}
        /\ failed_at # "wait"
        /\ pc \in {"t_verify", "done"} => "delete_server" \in calls

C7_Witness ==
    /\ StopDone /\ wait_result = "timeout"
    /\ response.action = "deleted"

\* C8: hostname resolution is attempted at most 5 times, repeated (with a
\* 30 s pause between attempts, none after the last) exactly while the
\* resolved value is empty or "None"; and when every attempt yields such a
\* value the workflow continues with the constructed hostname
\* <id>.server.transfer.<region>.amazonaws.com.
C8_RetryShape ==
    handler = "start" =>
        /\ attempt <= max_hostname_attempts
        /\ pc = "s_hostname" =>
               /\ pauses = attempt
               /\ attempt > 0 => ~HostnameUsable(server_hostname)
        /\ pc = "s_fallback" =>
               /\ pauses = attempt - 1
               /\ HostnameUsable(server_hostname)
                      \/ attempt = max_hostname_attempts
C8_HostnameRetryAndFallback ==
    /\ []C8_RetryShape
    /\ [][(handler = "start" /\ pc = "s_fallback"
               /\ ~HostnameUsable(server_hostname)) =>
              \E r \in Regions :
                 server_hostname' =
                     Str(ConstructHostname(NewServerId, Format(r)))]_vars

\* C9: a malformed SFTP_USER_CONFIGS (not JSON, or JSON that is not an array
\* of user records) makes bring-up return 400 with no provider or DNS call
\* issued.
C9_MalformedConfigRejected ==
    (StartDone /\ ConfigMalformed) =>
        /\ response.statusCode = 400
        /\ calls = {}

\* C10: every invocation of either handler ends by returning a result with
\* status 200, 400 or 500; no exception leaves the handler.
C10_AlwaysStructuredResult ==
    /\ pc # "crashed"
    /\ pc = "done" => response.statusCode \in {200, 400, 500}

\* C11: in both poll loops, when a fetch started before the deadline shows
\* the ready state (ONLINE in the bring-up wait, OFFLINE in the tear-down
\* wait), the loop returns at that observation: the wait has not failed, and
\* the fetch that showed the state is followed by no sleep and no fetch
\* (every earlier fetch was followed by exactly one sleep).
C11_ReadyEndsThePoll ==
    /\ pc \in {"s_wait", "t_wait"} => fetches = sleeps
    /\ ((handler = "start" /\ wait_result = "online")
            \/ (handler = "stop" /\ wait_result = "offline")) =>
           /\ pc \notin {"s_wait", "t_wait"}
           /\ failed_at # "wait"
           /\ pc \in {"s_waited", "t_waited"} =>
                  /\ fetches = sleeps + 1
                  /\ elapsed < max_wait_time

C11_Witness ==
    /\ handler = "start" /\ pc = "s_waited"
    /\ wait_result = "online" /\ seen_state = "ONLINE"
    /\ fetches = 3 /\ sleeps = 2

\* C12: when the bring-up online-wait sees START_FAILED or STOP_FAILED (no
\* ONLINE was seen before: that would have ended the loop), the wait fails
\* at that observation with an error that carries the name of the state it
\* saw; the fetch that showed it is followed by no sleep and no fetch, and
\* the deadline is not waited out.
C12_FatalStateFailsAtOnce ==
    (handler = "start" /\ wait_result = "fatal") =>
        /\ pc = "done" /\ failed_at = "wait"
        /\ seen_state \in {"START_FAILED", "STOP_FAILED"}
        /\ response.statusCode = 500
        /\ response.error = seen_state
        /\ fetches = sleeps + 1
        /\ elapsed < max_wait_time

C12_Witness ==
    /\ StartDone /\ wait_result = "fatal"
    /\ seen_state = "STOP_FAILED" /\ response.error = "STOP_FAILED"
    /\ fetches = 2 /\ sleeps = 1

\* C13: find_server_by_name returns the id of the first server, in listing
\* order, whose tags could be fetched and hold Name = the target name; a
\* server whose tag fetch raises is skipped and the scan goes on; when no
\* listed server qualifies it returns None.
ReadableMatches ==
    {i \in 1..Len(servers.Servers) :
        /\ ~IsException(servers.Servers[i].tags_exc)
        /\ HasNameTag(servers.Servers[i].Tags, ServerName)}
C13_FirstReadableMatch ==
    (handler = "stop" /\ pc = "t_found") =>
        IF ReadableMatches = {} THEN server_id = PyNone
        ELSE \E i \in ReadableMatches :
                /\ \A j \in ReadableMatches : i <= j
                /\ server_id = ServerIdAt(i)

\* C14: verify_dns_update answers True exactly when the listing holds a CNAME
\* record set whose name is the alias name, a trailing dot on either of the
\* two names not counting, and whose value is the expected hostname; it
\* answers False, raising nothing, otherwise.
ListedCnameMatches ==
    \E i \in 1..Len(dns_answer.sets) :
        /\ dns_answer.sets[i].Type = "CNAME"
        /\ RStripDot(dns_answer.sets[i].Name) = RStripDot(alias_hostname.v)
        /\ dns_answer.sets[i].Value = server_hostname
C14_VerifyIffRecordMatches ==
    (handler = "start" /\ dns_step \in {"verified", "unverified"}) =>
        ((dns_step = "verified") <=> ListedCnameMatches)

\* C15: as stated: the DNS upsert is issued only if the domain name, the
\* subdomain and the hosted-zone id are all non-empty (a subdomain that is
\* not set counts as its default "server").
C15_UpsertOnlyIfAllThreeSet ==
    (handler = "start" /\ "change_resource_record_sets" \in calls) =>
        /\ Truthy(domain_name)
        /\ Truthy(sftp_subdomain)
        /\ Truthy(hosted_zone_id)

\* C15, amended: the DNS upsert is issued only if the domain name and the
\* hosted-zone id are non-empty and a non-empty hostname was resolved; with
\* the domain name or the zone id missing or empty no DNS call is made.  The
\* subdomain is not asked for.
C15_UpsertOnlyIfDomainAndZone ==
    handler = "start" =>
        /\ "change_resource_record_sets" \in calls =>
               /\ Truthy(domain_name)
               /\ Truthy(hosted_zone_id)
               /\ Truthy(server_hostname)
        /\ (dns_step # "" /\ ~(Truthy(domain_name) /\ Truthy(hosted_zone_id))) =>
               /\ dns_step = "skipped"
               /\ calls \cap {"change_resource_record_sets", "waiter.wait",
                              "list_resource_record_sets"} = {}

C15_Witness ==
    /\ StartDone /\ response.statusCode = 200
    /\ "change_resource_record_sets" \in calls
    /\ sftp_subdomain = Str(<<>>)
    /\ response.dns_updated

\* C16: in tear-down, stop_server is issued only for a server read as
\* ONLINE and the stop-wait runs only for one read as ONLINE or STOPPING;
\* once the stop phase is over, stop_server was issued exactly if the state
\* was ONLINE and the wait ran exactly if it was ONLINE or STOPPING (OFFLINE
\* and every other state go to the deletion with neither); delete_server is
\* then issued exactly once, and after it no user deletion, no stop call and
\* no fetch of the stop-wait follows.
StopWaitRan == pc \in {"t_wait", "t_waited"} \/ wait_result # ""
StopPhaseOver == pc \in {"t_delete", "t_verify"} \/ delete_calls > 0
C16_StopPhaseShape ==
    handler = "stop" =>
        /\ "stop_server" \in calls => current_state = "ONLINE"
        /\ StopWaitRan => current_state \in {"ONLINE", "STOPPING"}
        /\ StopPhaseOver =>
               /\ "stop_server" \in calls <=> current_state = "ONLINE"
               /\ StopWaitRan <=> current_state \in {"ONLINE", "STOPPING"}
        /\ delete_calls = IF "delete_server" \in calls THEN 1 ELSE 0
        /\ pc = "t_delete" => delete_calls = 0
        /\ (pc = "t_verify" \/ response.action = "deleted") => delete_calls = 1
C16_StopThenDeleteOnce ==
    /\ []C16_StopPhaseShape
    /\ [][handler = "stop" =>
              /\ delete_calls' # delete_calls =>
                     /\ pc = "t_delete"
                     /\ delete_calls' = 1
              /\ delete_calls > 0 =>
                     /\ calls' \ calls \subseteq {"describe_server_verify"}
                     /\ fetches' = fetches]_vars

C16_Witness ==
    /\ StopDone /\ response.action = "deleted"
    /\ current_state = "STOPPING"
    /\ "stop_server" \notin calls
    /\ wait_result = "offline"
    /\ "delete_user" \in calls
    /\ delete_calls = 1

\* C17: once delete_server has returned without error, the one verification
\* read is made and the invocation returns 200 with action "deleted"
\* whatever that read does: answer with a server, fail with not-found, or
\* fail with any other error.
C17_DeletedWhateverTheVerifyRead ==
    (handler = "stop" /\ "describe_server_verify" \in calls) =>
        /\ pc = "done"
        /\ response.statusCode = 200
        /\ response.action = "deleted"

\* C18: each poll loop ends, whatever the fetches answer: it makes at most
\* 30 fetches (300 s deadline, 10 s sleep after every fetch that does not
\* end it, the clock advancing at least by each sleep), it can always take
\* its next step, and it ends in exactly one way: the ready state, a fatal
\* state (bring-up: failure; tear-down: go on anyway), not-found, a fetch
\* error that is passed on, or the deadline.
MaxFetches == max_wait_time \div poll_sleep
C18_PollLoopEnds ==
    /\ fetches <= MaxFetches /\ sleeps <= MaxFetches
    /\ pc \in {"s_wait", "t_wait"} =>
           /\ fetches = sleeps
           /\ elapsed >= poll_sleep * sleeps
           /\ wait_result = ""
    /\ pc = "s_wait" => ENABLED (WaitOnlinePoll \/ WaitOnlineTimeout)
    /\ pc = "t_wait" => ENABLED (WaitStoppedPoll \/ WaitStoppedTimeout)
    /\ pc = "s_waited" => wait_result \in {"online", "notfound"}
    /\ pc = "t_waited" =>
           wait_result \in {"offline", "stop_failed", "notfound", "timeout"}
    /\ failed_at = "wait" =>
           wait_result \in IF handler = "start"
                           THEN {"fatal", "error", "timeout"}
                           ELSE {"error"}

C18_Witness ==
    /\ handler = "stop" /\ pc = "t_waited"
    /\ wait_result = "timeout"
    /\ fetches = MaxFetches /\ sleeps = MaxFetches

\* C19: in bring-up, the hostname reads, the DNS upsert and every
\* create_user happen only after the online-wait has seen the server
\* ONLINE; a wait that ended on not-found does not let the workflow go on.
PastOnlineWait ==
    \/ pc \in {"s_hostname", "s_fallback", "s_dns", "s_users"}
    \/ failed_at \in {"hostname", "dns", "users"}
    \/ calls \cap {"change_resource_record_sets", "create_user"} # {}
    \/ response.statusCode = 200
C19_OnlineSeenBeforeGoingOn ==
    (handler = "start" /\ PastOnlineWait) => wait_result = "online"

\* C20: tear-down answers 200 "none_required" only if the listing of the
\* servers was obtained and the scan went through every listed server
\* without finding the Name tag (a server skipped for a ClientError of its
\* tag fetch counts as gone through); a failed listing call, or a scan that
\* an unexpected failure ended part-way, is never answered "none_required".
ScanCompleted ==
    /\ ~IsException(servers.exc)
    /\ \A i \in 1..Len(servers.Servers) :
           /\ IsException(servers.Servers[i].tags_exc) =>
                  IsClientError(servers.Servers[i].tags_exc)
           /\ ~IsException(servers.Servers[i].tags_exc) =>
                  ~HasNameTag(servers.Servers[i].Tags, ServerName)
C20_NoneRequiredOnlyAfterFullScan ==
    (StopDone /\ response.action = "none_required") => ScanCompleted

\* C21: over completed, non-overlapping invocations for one configured name
\* in which every provider call succeeds: whenever the invocation completed
\* last is a tear-down (it returned "deleted" or "none_required"), the
\* account holds no server with that Name tag (a server still held is one
\* no delete_server was issued for); two bring-ups and then one tear-down
\* are such a sequence.
NamedServersLeft ==
    {i \in 1..Len(fleet) : HasNameTag(fleet[i].Tags, ServerName)}
C21_TearDownLeavesNoNamedServer ==
    (StopDone /\ history # <<>>
        /\ response.action \in {"deleted", "none_required"}) =>
        NamedServersLeft = {}

====
